---- MODULE Spec2Model ----
(***************************************************************************)
(* A model of the in-memory ledger of src/app.py: the chain, the pending   *)
(* transactions, the subscriber queues, the ledger lock and the request    *)
(* handlers submit_tx, mine, submit_chain, balance/get_chain and events.   *)
(*                                                                         *)
(* Amounts are Python floats in the source.  Every amount the model builds *)
(* is a whole number of coins, and the quotient START_REWARD / 2^k is      *)
(* exact for the halving counts the model reaches (RewardExact below), so  *)
(* amounts are modelled as integers.                                       *)
(*                                                                         *)
(* src/app.py declares "global chain" after the first use of chain inside  *)
(* submit_chain (line 140), which CPython refuses to compile; the model    *)
(* follows the evident meaning, an assignment to the module-level chain.   *)
(***************************************************************************)
EXTENDS Integers, Sequences, FiniteSets, TLC

VARIABLES chain, pending_txs, sse_clients, streams, blockchain_lock, pc, local

vars == <<chain, pending_txs, sse_clients, streams, blockchain_lock, pc, local>>

---------------------------------------------------------------------------
(* Program constants                                                       *)

DIFFICULTY == 3

START_REWARD == 50

COIN_CAP == 21000000

SYSTEM == "SYSTEM"

None == "None"

---------------------------------------------------------------------------
(* Bounds of the model                                                     *)

\* Longest chain the model builds or accepts as a candidate.
MaxChain == 3

\* Most transactions waiting in pending_txs.
MaxPending == 2

\* Request-handling threads (app.run(threaded=True)).
NumThreads == 2

\* The digest alphabet: two symbols stand for the sixteen of hexdigest().
HashSymbols == {0, 1}

HashBase == Cardinality(HashSymbols)

\* Symbols of a digest: one more than the proof-of-work prefix, for the 64 of
\* hexdigest().
HashLen == DIFFICULTY + 1

\* Halving thresholds COIN_CAP * (1 - 1 / 2^j) considered: j up to MaxHalvings.
MaxHalvings == 25

\* Subscribers connected through /events, and events waiting in one queue.
MaxClients == 1

MaxQueue == 2

Threads == 1 .. NumThreads

---------------------------------------------------------------------------
(* Hashing: sha256_hex(serialize_block_for_hash(block))                    *)

RECURSIVE Pow(_, _)
Pow(b, n) == IF n = 0 THEN 1 ELSE b * Pow(b, n - 1)

HashSpace == Pow(HashBase, HashLen)

\* The digest as a string of HashLen symbols, most significant first.
HexDigest(n) == [i \in 1 .. HashLen |-> (n \div Pow(HashBase, HashLen - i)) % HashBase]

RECURSIVE DigestValue(_)
DigestValue(h) ==
    IF Len(h) = 0 THEN 0
    ELSE DigestValue(SubSeq(h, 1, Len(h) - 1)) * HashBase + h[Len(h)]

\* '0' * 64, the previous hash of the genesis block.
ZeroHash == [i \in 1 .. HashLen |-> 0]

\* One step of the digest over the serialized bytes: absorbs the number x.
Absorb(h, x) == (h * (HashBase + 1) + x + 1) % HashSpace

IdCode(s) ==
    CASE s = None -> 0
      [] s = SYSTEM -> 1
      [] s = "A" -> 2
      [] s = "B" -> 3
      [] s = "C" -> 4
      [] OTHER -> 5

HasField(r, f) == f \in DOMAIN r

\* json.dumps of one transaction: its keys in sorted order.
SerializeTx(h, tx) ==
    LET h1 == Absorb(h, tx.amount)
        h2 == Absorb(h1, IdCode(tx.from))
        h3 == IF HasField(tx, "pubkey_spki") THEN Absorb(h2, IdCode(tx.pubkey_spki)) ELSE h2
        h4 == IF HasField(tx, "signature")
              THEN Absorb(Absorb(h3, IdCode(tx.signature.signer)), tx.signature.amount)
              ELSE h3
    IN  Absorb(h4, IdCode(tx.to))

RECURSIVE SerializeTxs(_, _)
SerializeTxs(h, txs) ==
    IF Len(txs) = 0 THEN h
    ELSE SerializeTxs(SerializeTx(h, Head(txs)), Tail(txs))

\* The block without its hash, keys sorted: index, miner, nonce, prev_hash,
\* timestamp, transactions.
serialize_block_for_hash(block) ==
    LET h1 == Absorb(0, block.index)
        h2 == Absorb(h1, IdCode(block.miner))
        h3 == Absorb(h2, block.nonce)
        h4 == Absorb(h3, DigestValue(block.prev_hash))
        h5 == Absorb(h4, block.timestamp)
    IN  SerializeTxs(h5, block.transactions)

compute_block_hash(block) == HexDigest(serialize_block_for_hash(block))

\* h.startswith('0' * DIFFICULTY)
StartsWithZeros(h) == \A i \in 1 .. DIFFICULTY : h[i] = 0

---------------------------------------------------------------------------
(* Chain validation, issuance, reward, balance                             *)

\* Validation that forgets the proof-of-work test of lines 52-53.
is_valid_chain_no_pow(c) ==
    \A i \in 2 .. Len(c) :
        /\ c[i].prev_hash = c[i - 1].hash
        /\ compute_block_hash(c[i]) = c[i].hash

is_valid_chain(c) ==
    \A i \in 2 .. Len(c) :
        /\ c[i].prev_hash = c[i - 1].hash
        /\ compute_block_hash(c[i]) = c[i].hash
        /\ StartsWithZeros(c[i].hash)

\* Lines 60-62: the loop over one block's transactions.
RECURSIVE IssuedInTxs(_, _)
IssuedInTxs(total, txs) ==
    IF Len(txs) = 0 THEN total
    ELSE IssuedInTxs(IF Head(txs).from = SYSTEM THEN total + Head(txs).amount ELSE total,
                     Tail(txs))

\* Lines 58-63: the loop over the blocks.
RECURSIVE IssuedInBlocks(_, _)
IssuedInBlocks(total, blocks) ==
    IF Len(blocks) = 0 THEN total
    ELSE IssuedInBlocks(IssuedInTxs(total, Head(blocks).transactions), Tail(blocks))

total_issued(chain_obj) == IssuedInBlocks(0, chain_obj)

\* A loop that counts a threshold only once issued has passed it.
RECURSIVE HalvingLoopStrict(_, _, _)
HalvingLoopStrict(issued, k, p) ==
    IF issued >= COIN_CAP THEN -1
    ELSE IF (COIN_CAP - issued) * p < COIN_CAP THEN HalvingLoopStrict(issued, k + 1, 2 * p)
    ELSE k

\* The while loop of current_reward: k grows while issued has reached
\* COIN_CAP * (1 - 1 / 2^(k+1)), that is while (COIN_CAP - issued) * 2^(k+1)
\* <= COIN_CAP; p is 2^(k+1).  With issued >= COIN_CAP the test holds for
\* every k, so k grows until 1.0 / (2 ** 1024) raises OverflowError ("int too
\* large to convert to float"): the loop is left by the exception, -1 here.
RECURSIVE HalvingLoop(_, _, _)
HalvingLoop(issued, k, p) ==
    IF issued >= COIN_CAP THEN -1
    ELSE IF (COIN_CAP - issued) * p <= COIN_CAP THEN HalvingLoop(issued, k + 1, 2 * p)
    ELSE k

\* The halving count k, or -1 when the loop raises.
HalvingCount(issued) == HalvingLoop(issued, 0, 2)

Max(a, b) == IF a >= b THEN a ELSE b

\* Lines 76-82 as the quotient num / den the arithmetic yields; den is 0
\* when the loop raises.  issued + reward > COIN_CAP is tested as
\* START_REWARD > (COIN_CAP - issued) * 2^k.
RewardQuotient(issued) ==
    LET k == HalvingCount(issued)
    IN  IF k < 0 THEN [num |-> 0, den |-> 0]
        ELSE IF issued >= COIN_CAP THEN [num |-> 0, den |-> 1]
        ELSE IF START_REWARD > (COIN_CAP - issued) * Pow(2, k)
        THEN [num |-> Max(0, COIN_CAP - issued), den |-> 1]
        ELSE [num |-> START_REWARD, den |-> Pow(2, k)]

\* The reward, or -1 when current_reward raises instead of returning.
current_reward(chain_obj) ==
    LET r == RewardQuotient(total_issued(chain_obj))
    IN  IF r.den = 0 THEN -1 ELSE r.num \div r.den

\* The integer quotient above is the float quotient of the source.
RewardExact(chain_obj) ==
    LET k == HalvingCount(total_issued(chain_obj))
    IN  k >= 0 => (START_REWARD \div Pow(2, k)) * Pow(2, k) = START_REWARD

\* Lines 192-196: the loop over one block's transactions.
RECURSIVE ScanTxs(_, _, _)
ScanTxs(bal, txs, pub) ==
    IF Len(txs) = 0 THEN bal
    ELSE LET tx == Head(txs)
             credited == IF tx.to = pub THEN bal + tx.amount ELSE bal
             debited == IF tx.from = pub THEN credited - tx.amount ELSE credited
         IN  ScanTxs(debited, Tail(txs), pub)

\* Lines 191-196: the loop over the blocks.
RECURSIVE ScanBlocks(_, _, _)
ScanBlocks(bal, blocks, pub) ==
    IF Len(blocks) = 0 THEN bal
    ELSE ScanBlocks(ScanTxs(bal, Head(blocks).transactions, pub), Tail(blocks), pub)

\* Lines 198-200: the loop over the pending transactions.
RECURSIVE ScanPending(_, _, _)
ScanPending(bal, pend, pub) ==
    IF Len(pend) = 0 THEN bal
    ELSE ScanPending(IF Head(pend).from = pub THEN bal - Head(pend).amount ELSE bal,
                     Tail(pend), pub)

\* A balance that forgets the pending transactions of lines 198-200.
BalanceSealedOnly(c, pend, pub) == ScanBlocks(0, c, pub)

\* Lines 189-201, over chain c and pending transactions pend.
BalanceOver(c, pend, pub) == ScanPending(ScanBlocks(0, c, pub), pend, pub)

calculate_balance_internal(pub) == BalanceOver(chain, pending_txs, pub)

---------------------------------------------------------------------------
(* Signatures: verify_signature(pubkey_spki, signature, message)           *)

\* The identities that are public keys; "SYSTEM" decodes to no key.
Keys == {"A", "B", "C"}

\* An ECDSA signature by signer's private key over the canonical message.
Sign(signer, from, to, amount) ==
    [signer |-> signer, from |-> from, to |-> to, amount |-> amount]

verify_signature(spki, signature, from, to, amount) ==
    /\ spki \in Keys
    /\ signature = Sign(spki, from, to, amount)

RequiredFields == {"from", "to", "amount", "signature", "pubkey_spki"}

---------------------------------------------------------------------------
(* Events: broadcast_event(event_name, data)                               *)

\* q.put(payload, block=False) on queue.Queue(): maxsize 0 is unbounded, so
\* put never raises and no queue is collected for removal.
QueuePut(q, payload) == Append(q, payload)

broadcast_event(clients, event_name, data) ==
    [i \in 1 .. Len(clients) |-> QueuePut(clients[i], [event |-> event_name, data |-> data])]

\* The model stops publishing at a queue of MaxQueue waiting events.
QueuesHaveRoom == \A i \in 1 .. Len(sse_clients) : Len(sse_clients[i]) < MaxQueue

NoLocal == [kind |-> "none"]

\* The lock ignored: a handler that enters its critical section at once.
LockIgnored == TRUE

\* with blockchain_lock: the lock can be taken when no thread holds it.
LockFree == blockchain_lock = 0

---------------------------------------------------------------------------
(* Initial state: lines 15-20 and the genesis block of lines 110-120       *)

WithHash(b, h) ==
    [index |-> b.index, timestamp |-> b.timestamp, nonce |-> b.nonce,
     prev_hash |-> b.prev_hash, transactions |-> b.transactions,
     miner |-> b.miner, hash |-> h]

GenesisAt(ts) ==
    LET g == [index |-> 0, timestamp |-> ts, nonce |-> 0, prev_hash |-> ZeroHash,
              transactions |-> <<>>, miner |-> None]
    IN  WithHash(g, compute_block_hash(g))

\* int(time.time()) as the handlers read it.
MaxTime == 0

Timestamps == 0 .. MaxTime

Init ==
    /\ chain \in {<<GenesisAt(ts)>> : ts \in Timestamps}
    /\ pending_txs = <<>>
    /\ sse_clients = <<>>
    /\ streams = <<>>
    /\ blockchain_lock = 0
    /\ pc = [t \in Threads |-> "idle"]
    /\ local = [t \in Threads |-> NoLocal]

---------------------------------------------------------------------------
(* /submit_tx                                                              *)

\* Checks that leave out the signature check of lines 156-158.
tx_precheck_unsigned(tx) ==
    IF ~(RequiredFields \subseteq DOMAIN tx) THEN "missing tx fields"
    ELSE IF tx.from # tx.pubkey_spki THEN "from does not match pubkey"
    ELSE "ok"

\* Lines 152-162: the checks made before the lock is taken; "ok" when the
\* handler goes on to the lock.
tx_precheck(tx) ==
    IF ~(RequiredFields \subseteq DOMAIN tx) THEN "missing tx fields"
    ELSE IF ~verify_signature(tx.pubkey_spki, tx.signature, tx.from, tx.to, tx.amount)
    THEN "invalid signature"
    ELSE IF tx.from # tx.pubkey_spki THEN "from does not match pubkey"
    ELSE "ok"

\* Lines 165-167: the balance check made under the lock.
tx_funded(tx) == ~(tx.amount > calculate_balance_internal(tx.from))

\* What submit_tx answers to tx in the current state: an error of lines
\* 154-167, or "accepted".
tx_response(tx) ==
    IF tx_precheck(tx) # "ok" THEN tx_precheck(tx)
    ELSE IF ~tx_funded(tx) THEN "insufficient funds"
    ELSE "accepted"

\* Lines 169-175.
AcceptedTx(tx) ==
    [from |-> tx.from, to |-> tx.to, amount |-> tx.amount,
     signature |-> tx.signature, pubkey_spki |-> tx.pubkey_spki]

\* Lines 151-167: the checks before the lock, then the lock and the balance
\* check.  A refused request changes nothing (the lock is released again).
submit_tx(t, tx) ==
    /\ pc[t] = "idle"
    /\ IF tx_precheck(tx) # "ok"
       THEN UNCHANGED <<blockchain_lock, pc, local>>
       ELSE /\ LockFree
            /\ IF tx_response(tx) # "accepted"
               THEN UNCHANGED <<blockchain_lock, pc, local>>
               ELSE /\ Len(pending_txs) < MaxPending
                    /\ blockchain_lock' = t
                    /\ pc' = [pc EXCEPT ![t] = "tx_append"]
                    /\ local' = [local EXCEPT ![t] = [kind |-> "tx", tx |-> AcceptedTx(tx)]]
    /\ UNCHANGED <<chain, pending_txs, sse_clients, streams>>

\* Lines 169-175: the append, still under the lock, which is then released.
submit_tx_append(t) ==
    /\ pc[t] = "tx_append"
    /\ pending_txs' = Append(pending_txs, local[t].tx)
    /\ blockchain_lock' = 0
    /\ pc' = [pc EXCEPT ![t] = "tx_event"]
    /\ UNCHANGED <<chain, sse_clients, streams, local>>

\* Line 176, after the lock is released: pending_txs[-1] is read again, and
\* raises IndexError when pending_txs is empty by then; otherwise the payload
\* is built and the loop of broadcast_event starts (it ends at once when no
\* client is registered).
submit_tx_event(t) ==
    /\ pc[t] = "tx_event"
    /\ IF Len(pending_txs) = 0 \/ Len(sse_clients) = 0
       THEN /\ pc' = [pc EXCEPT ![t] = "idle"]
            /\ local' = [local EXCEPT ![t] = NoLocal]
       ELSE /\ pc' = [pc EXCEPT ![t] = "tx_put"]
            /\ local' = [local EXCEPT ![t] =
                   [kind |-> "publish", next |-> 1,
                    payload |-> [event |-> "new_tx",
                                 data |-> [tx |-> pending_txs[Len(pending_txs)]]]]]
    /\ UNCHANGED <<chain, pending_txs, sse_clients, streams, blockchain_lock>>

\* Lines 98-100 in submit_tx, which holds no lock here: one q.put of the
\* loop over sse_clients; other threads run between two puts.
submit_tx_put(t) ==
    /\ pc[t] = "tx_put"
    /\ LET i == local[t].next
       IN  /\ Len(sse_clients[i]) < MaxQueue
           /\ sse_clients' = [sse_clients EXCEPT ![i] = QueuePut(@, local[t].payload)]
           /\ IF i = Len(sse_clients)
              THEN /\ pc' = [pc EXCEPT ![t] = "idle"]
                   /\ local' = [local EXCEPT ![t] = NoLocal]
              ELSE /\ pc' = pc
                   /\ local' = [local EXCEPT ![t].next = i + 1]
    /\ UNCHANGED <<chain, pending_txs, streams, blockchain_lock>>

---------------------------------------------------------------------------
(* /mine                                                                   *)

\* A search that seals the block at the first nonce it tries.
ProofOfWorkFirstNonce(block, nonce) ==
    WithHash([block EXCEPT !.nonce = nonce],
             compute_block_hash([block EXCEPT !.nonce = nonce]))

\* Lines 228-235: the nonce search, from nonce upwards.
RECURSIVE ProofOfWork(_, _)
ProofOfWork(block, nonce) ==
    LET b == [block EXCEPT !.nonce = nonce]
        h == compute_block_hash(b)
    IN  IF StartsWithZeros(h) THEN WithHash(b, h) ELSE ProofOfWork(block, nonce + 1)

\* Line 212.
Coinbase(miner_pub, reward) == [from |-> SYSTEM, to |-> miner_pub, amount |-> reward]

\* A block that leaves the pending transactions out.
NewBlockCoinbaseOnly(c, pend, miner_pub, reward, ts) ==
    [index |-> Len(c), timestamp |-> ts, nonce |-> 0, prev_hash |-> c[Len(c)].hash,
     transactions |-> <<Coinbase(miner_pub, reward)>>, miner |-> miner_pub]

\* Lines 214-223.
NewBlock(c, pend, miner_pub, reward, ts) ==
    [index |-> Len(c), timestamp |-> ts, nonce |-> 0, prev_hash |-> c[Len(c)].hash,
     transactions |-> <<Coinbase(miner_pub, reward)>> \o pend, miner |-> miner_pub]

\* What mine answers in the current state: the error of line 208, the
\* exception current_reward raises at line 210, or "mined".
mine_response(miner_pub) ==
    IF miner_pub = None THEN "miner_pub required"
    ELSE IF current_reward(chain) < 0 THEN "OverflowError"
    ELSE "mined"

\* Lines 205-223: the lock is taken, the reward computed, the block built.
\* An exception leaves the with block and the lock is released.
mine_begin(t, miner_pub, ts) ==
    /\ pc[t] = "idle"
    /\ IF miner_pub = None
       THEN UNCHANGED <<blockchain_lock, pc, local>>
       ELSE /\ LockFree
            /\ Len(chain) < MaxChain
            /\ IF mine_response(miner_pub) # "mined"
               THEN UNCHANGED <<blockchain_lock, pc, local>>
               ELSE /\ blockchain_lock' = t
                    /\ pc' = [pc EXCEPT ![t] = "mine_pow"]
                    /\ local' = [local EXCEPT ![t] =
                           [kind |-> "mine", reward |-> current_reward(chain),
                            new_block |-> NewBlock(chain, pending_txs, miner_pub,
                                                   current_reward(chain), ts)]]
    /\ UNCHANGED <<chain, pending_txs, sse_clients, streams>>

\* Lines 225-245: the search, the append, the clear and the event, all
\* before the lock is released.
mine_commit(t) ==
    /\ pc[t] = "mine_pow"
    /\ QueuesHaveRoom
    /\ LET sealed == ProofOfWork(local[t].new_block, 0)
       IN  /\ chain' = Append(chain, sealed)
           /\ pending_txs' = <<>>
           /\ sse_clients' = broadcast_event(sse_clients, "mined",
                  [block_index |-> sealed.index, hash |-> sealed.hash,
                   miner |-> sealed.miner, reward |-> local[t].reward])
    /\ blockchain_lock' = 0
    /\ pc' = [pc EXCEPT ![t] = "idle"]
    /\ local' = [local EXCEPT ![t] = NoLocal]
    /\ UNCHANGED streams

---------------------------------------------------------------------------
(* /submit_chain, /balance, /get_chain, /events                            *)

\* A comparison that lets a chain of equal length through.
chain_response_not_shorter(payload) ==
    IF ~payload.is_list THEN "invalid chain format"
    ELSE IF Len(payload.chain) >= Len(chain) /\ is_valid_chain(payload.chain) THEN "replaced"
    ELSE "rejected"

\* What submit_chain answers to payload in the current state (lines
\* 136-147).  payload.is_list tells whether payload.get('chain') is a list;
\* payload.chain is that list.
chain_response(payload) ==
    IF ~payload.is_list THEN "invalid chain format"
    ELSE IF Len(payload.chain) > Len(chain) /\ is_valid_chain(payload.chain) THEN "replaced"
    ELSE "rejected"

\* Lines 134-147.
submit_chain(t, payload) ==
    /\ pc[t] = "idle"
    /\ IF ~payload.is_list
       THEN UNCHANGED <<chain, pending_txs, sse_clients>>
       ELSE /\ LockFree
            /\ IF chain_response(payload) = "replaced"
               THEN /\ QueuesHaveRoom
                    /\ chain' = payload.chain
                    /\ pending_txs' = <<>>
                    /\ sse_clients' = broadcast_event(sse_clients, "chain_replaced",
                                                      [chain_length |-> Len(payload.chain)])
               ELSE UNCHANGED <<chain, pending_txs, sse_clients>>
    /\ UNCHANGED <<streams, blockchain_lock, pc, local>>

\* Lines 179-186: the balance the handler answers with.
balance(pub) == calculate_balance_internal(pub)

\* Lines 127-130 and 179-186: a read of the ledger under the lock.
read_ledger(t) ==
    /\ pc[t] = "idle"
    /\ LockFree
    /\ UNCHANGED vars

\* Lines 257-259: a new queue is registered; no lock is taken.
events(t) ==
    /\ pc[t] = "idle"
    /\ Len(sse_clients) < MaxClients
    /\ sse_clients' = Append(sse_clients, <<>>)
    /\ streams' = Append(streams, "open")
    /\ UNCHANGED <<chain, pending_txs, blockchain_lock, pc, local>>

\* Lines 251-253: the generator of client i takes the next message.
stream_next(i) ==
    /\ i \in 1 .. Len(sse_clients)
    /\ streams[i] = "open"
    /\ Len(sse_clients[i]) > 0
    /\ sse_clients' = [sse_clients EXCEPT ![i] = Tail(@)]
    /\ UNCHANGED <<chain, pending_txs, streams, blockchain_lock, pc, local>>

\* Lines 254-255: the client went away and the generator is closed; its
\* queue stays in sse_clients.
stream_close(i) ==
    /\ i \in 1 .. Len(sse_clients)
    /\ streams[i] = "open"
    /\ streams' = [streams EXCEPT ![i] = "closed"]
    /\ UNCHANGED <<chain, pending_txs, sse_clients, blockchain_lock, pc, local>>

---------------------------------------------------------------------------
(* Requests the clients send                                               *)

\* A transfer signed by its sender, as the page's client builds it.
Transfer(from, to, amount) ==
    [from |-> from, to |-> to, amount |-> amount,
     signature |-> Sign(from, from, to, amount), pubkey_spki |-> from]

TxAmounts == {0, 30}

SignedRequests == {Transfer("A", "B", a) : a \in TxAmounts}

MalformedRequests ==
    { [from |-> "A", to |-> "B", amount |-> 30, pubkey_spki |-> "A"],
      [from |-> "A", to |-> "B", amount |-> 30,
       signature |-> Sign("B", "A", "B", 30), pubkey_spki |-> "A"],
      [from |-> "A", to |-> "B", amount |-> 30,
       signature |-> Sign("B", "A", "B", 30), pubkey_spki |-> "B"],
      [from |-> SYSTEM, to |-> "B", amount |-> 30,
       signature |-> Sign(SYSTEM, SYSTEM, "B", 30), pubkey_spki |-> SYSTEM] }

TxRequests == SignedRequests \cup MalformedRequests

Miners == {"A", "C"}

MineRequests == Miners \cup {None}

Accounts == {"A", "B", "C"}

\* A block another node mined on top of c.
Forge(c, txs, miner_pub, ts) ==
    Append(c, ProofOfWork([index |-> Len(c), timestamp |-> ts, nonce |-> 0,
                           prev_hash |-> c[Len(c)].hash, transactions |-> txs,
                           miner |-> miner_pub], 0))

ForgedRewards == {COIN_CAP, COIN_CAP + 1}

WithoutLast(c) == SubSeq(c, 1, Len(c) - 1)

\* The last block with another digest that still starts with zeros.
TamperHash(c) ==
    [c EXCEPT ![Len(c)].hash = [@ EXCEPT ![HashLen] = (@ + 1) % HashBase]]

\* The last block mined on a previous hash that is not its predecessor's.
BreakLink(c) ==
    LET b == c[Len(c)]
        other == [b.prev_hash EXCEPT ![HashLen] = (@ + 1) % HashBase]
    IN  [c EXCEPT ![Len(c)] =
            ProofOfWork([index |-> b.index, timestamp |-> b.timestamp, nonce |-> 0,
                         prev_hash |-> other, transactions |-> b.transactions,
                         miner |-> b.miner], 0)]

\* The last block with its true digest for a nonce the search did not stop at.
RECURSIVE NoWork(_, _)
NoWork(block, nonce) ==
    LET b == [block EXCEPT !.nonce = nonce]
        h == compute_block_hash(b)
    IN  IF StartsWithZeros(h) THEN NoWork(block, nonce + 1) ELSE WithHash(b, h)

SkipWork(c) ==
    LET b == c[Len(c)]
    IN  [c EXCEPT ![Len(c)] =
            NoWork([index |-> b.index, timestamp |-> b.timestamp, nonce |-> 0,
                    prev_hash |-> b.prev_hash, transactions |-> b.transactions,
                    miner |-> b.miner], 0)]

\* A first block that is no genesis block: index 1, or a previous hash that
\* is not all zeros.
ForeignGenesis ==
    LET g == [index |-> 1, timestamp |-> 0, nonce |-> 0, prev_hash |-> ZeroHash,
              transactions |-> <<>>, miner |-> None]
        f == [index |-> 0, timestamp |-> 0, nonce |-> 0,
              prev_hash |-> [ZeroHash EXCEPT ![HashLen] = 1],
              transactions |-> <<>>, miner |-> None]
    IN  {<<WithHash(g, compute_block_hash(g))>>, <<WithHash(f, compute_block_hash(f))>>}

Honest(c) == Forge(c, <<Coinbase("C", START_REWARD)>>, "C", 0)

\* Forks of the genesis block whose coinbase pays what its miner chose.
Forks ==
    {Forge(<<GenesisAt(ts)>>, <<Coinbase("C", r)>>, "C", 0) :
        ts \in Timestamps, r \in ForgedRewards}

LongFork == Honest(Forge(<<GenesisAt(0)>>, <<Coinbase("C", COIN_CAP)>>, "C", 0))

\* A fork of the genesis block whose block carries an index that is not its
\* position in the chain.
Misnumbered ==
    <<GenesisAt(0),
      ProofOfWork([index |-> 2, timestamp |-> 0, nonce |-> 0,
                   prev_hash |-> GenesisAt(0).hash,
                   transactions |-> <<Coinbase("C", START_REWARD)>>, miner |-> "C"], 0)>>

\* A fork of the genesis block whose block spends 30 coins that A never
\* received.
Overdrawn ==
    Forge(<<GenesisAt(0)>>, <<Coinbase("C", START_REWARD), Transfer("A", "B", 30)>>, "C", 0)

\* Chains that pass is_valid_chain and do not depend on the node's chain.
ForeignChains ==
    Forks \cup {Honest(g) : g \in ForeignGenesis} \cup {LongFork, Misnumbered, Overdrawn}

\* Chains with one flaw in the last block.
FlawedChains == {TamperHash(LongFork), BreakLink(LongFork), SkipWork(LongFork)}

\* The chains a remote party proposes to a node whose chain is cur: the
\* chain itself, the chain without its last block, the chain with one more
\* block, and the foreign and flawed chains.
CandidateChains(cur) ==
    {c \in {cur, WithoutLast(cur), Honest(cur)} \cup ForeignChains \cup FlawedChains :
        Len(c) <= MaxChain}

ChainRequests(cur) ==
    {[is_list |-> TRUE, chain |-> c] : c \in CandidateChains(cur)}
    \cup {[is_list |-> FALSE, chain |-> <<>>]}

---------------------------------------------------------------------------
(* Specifications                                                          *)

\* The ledger under concurrent requests, with no subscriber connected.
Next ==
    \E t \in Threads :
        \/ \E tx \in TxRequests : submit_tx(t, tx)
        \/ submit_tx_append(t)
        \/ submit_tx_event(t)
        \/ \E m \in MineRequests, ts \in Timestamps : mine_begin(t, m, ts)
        \/ mine_commit(t)
        \/ \E p \in ChainRequests(chain) : submit_chain(t, p)
        \/ read_ledger(t)

Spec == Init /\ [][Next]_vars

\* The same ledger with subscribers connecting, reading and going away.
NextEvents ==
    \/ Next
    \/ \E t \in Threads : submit_tx_put(t)
    \/ \E t \in Threads : events(t)
    \/ \E i \in 1 .. MaxClients : stream_next(i)
    \/ \E i \in 1 .. MaxClients : stream_close(i)

SpecEvents == Init /\ [][NextEvents]_vars

\* Subscribers connected before the requests arrive.
NumListeners == 2

\* The ledger after NumListeners clients have opened /events.
InitFanout ==
    /\ chain \in {<<GenesisAt(ts)>> : ts \in Timestamps}
    /\ pending_txs = <<>>
    /\ sse_clients = [i \in 1 .. NumListeners |-> <<>>]
    /\ streams = [i \in 1 .. NumListeners |-> "open"]
    /\ blockchain_lock = 0
    /\ pc = [t \in Threads |-> "idle"]
    /\ local = [t \in Threads |-> NoLocal]

NextFanout ==
    \/ Next
    \/ \E t \in Threads : submit_tx_put(t)
    \/ \E i \in 1 .. NumListeners : stream_next(i)

\* The requests of Spec, published to these subscribers, which stay connected.
SpecFanout == InitFanout /\ [][NextFanout]_vars

\* Issuance at which the reward is computed: the first coins, and one coin
\* below, at and above each halving threshold (rounded down to a coin).
IssuedSamples ==
    {x \in {0, 1, START_REWARD}
           \cup {COIN_CAP - COIN_CAP \div Pow(2, j) + d : j \in 1 .. MaxHalvings, d \in {-1, 0, 1}} :
        0 <= x /\ x < COIN_CAP}

\* A node whose chain, adopted through /submit_chain, has issued x coins.
InitReward ==
    /\ chain \in {Forge(<<GenesisAt(0)>>, <<Coinbase("C", x)>>, "C", 0) : x \in IssuedSamples}
    /\ pending_txs = <<>>
    /\ sse_clients = <<>>
    /\ streams = <<>>
    /\ blockchain_lock = 0
    /\ pc = [t \in Threads |-> "idle"]
    /\ local = [t \in Threads |-> NoLocal]

\* Lines 209-210 of mine: the lock is taken and the reward computed.
mine_reward(t) ==
    /\ pc[t] = "idle"
    /\ LockFree
    /\ blockchain_lock' = t
    /\ pc' = [pc EXCEPT ![t] = "mine_reward"]
    /\ local' = [local EXCEPT ![t] =
           [kind |-> "reward", issued |-> total_issued(chain),
            reward |-> RewardQuotient(total_issued(chain))]]
    /\ UNCHANGED <<chain, pending_txs, sse_clients, streams>>

NextReward == \E t \in Threads : mine_reward(t)

\* current_reward over the sampled issuance.
SpecReward == InitReward /\ [][NextReward]_vars

---------------------------------------------------------------------------
(* The properties, stated from the specification's words                   *)

\* All sealed transactions, block after block.
RECURSIVE SealedTxs(_)
SealedTxs(c) == IF Len(c) = 0 THEN <<>> ELSE SealedTxs(WithoutLast(c)) \o c[Len(c)].transactions

RECURSIVE Received(_, _)
Received(txs, id) ==
    IF Len(txs) = 0 THEN 0
    ELSE (IF Head(txs).to = id THEN Head(txs).amount ELSE 0) + Received(Tail(txs), id)

RECURSIVE Sent(_, _)
Sent(txs, id) ==
    IF Len(txs) = 0 THEN 0
    ELSE (IF Head(txs).from = id THEN Head(txs).amount ELSE 0) + Sent(Tail(txs), id)

\* Sealed incoming minus sealed outgoing minus pending outgoing.
ClaimBalance(c, pend, id) ==
    Received(SealedTxs(c), id) - Sent(SealedTxs(c), id) - Sent(pend, id)

Involves(tx, id) == tx.from = id \/ tx.to = id

\* C1: submit rejects every transaction whose amount is <= 0: a correctly
\* signed request with such an amount is never answered "accepted", and no
\* transaction of pending_txs has an amount <= 0.
C1_NonPositiveRejected ==
    /\ \A tx \in SignedRequests : tx.amount <= 0 => tx_response(tx) # "accepted"
    /\ \A i \in 1 .. Len(pending_txs) : pending_txs[i].amount > 0

\* C2: in every reachable state the amounts issued by SYSTEM over the
\* current chain sum to at most the supply cap.
C2_IssuedWithinCap == Sent(SealedTxs(chain), SYSTEM) <= COIN_CAP

\* C3: for every chain whose issuance has reached the cap, current_reward
\* returns 0 and a mine request goes on to seal a block.
C3_RewardZeroAtCap ==
    Sent(SealedTxs(chain), SYSTEM) >= COIN_CAP =>
        /\ current_reward(chain) = 0
        /\ mine_response("A") = "mined"

\* C4: a transaction is appended to pending_txs only if, at the moment of
\* the append, its amount is at most its sender's balance (sealed incoming
\* minus sealed outgoing minus pending outgoing); so the pending outgoing
\* amounts of a sender never exceed what the chain holds for that sender.
C4_AppendOnlyIfFunded ==
    /\ [][Len(pending_txs') = Len(pending_txs) + 1 =>
            LET tx == pending_txs'[Len(pending_txs')]
            IN  tx.amount <= ClaimBalance(chain, pending_txs, tx.from)]_vars
    /\ [](\A i \in 1 .. Len(pending_txs) :
            ClaimBalance(chain, pending_txs, pending_txs[i].from) >= 0)

\* C4 witness: A holds 50 on the chain, one transfer of 30 was admitted and
\* is being announced by its thread, and a second transfer of 30 from A is
\* answered "insufficient funds".
C4_Witness ==
    /\ \E t \in Threads : pc[t] = "tx_event"
    /\ ClaimBalance(chain, <<>>, "A") = 50
    /\ Len(pending_txs) = 1
    /\ pending_txs[1].amount = 30 /\ pending_txs[1].from = "A"
    /\ tx_response(Transfer("A", "B", 30)) = "insufficient funds"

\* The validity the fork-choice rule asks of a candidate: every block after
\* the first links to its predecessor's hash, carries the digest of its
\* other fields, and that hash meets the proof-of-work predicate.
ClaimValid(c) ==
    \A i \in 1 .. Len(c) - 1 :
        LET blk == c[i + 1]
        IN  /\ blk.prev_hash = c[i].hash
            /\ blk.hash = compute_block_hash(blk)
            /\ SubSeq(blk.hash, 1, DIFFICULTY) = [j \in 1 .. DIFFICULTY |-> 0]

\* A step that leaves every thread and the lock where they were and changes
\* the chain, pending_txs or a queue: the steps submit_chain can take.
LedgerStepInPlace ==
    /\ pc' = pc /\ local' = local /\ blockchain_lock' = blockchain_lock /\ streams' = streams
    /\ <<chain, pending_txs, sse_clients>>' # <<chain, pending_txs, sse_clients>>

\* C5: submit_chain adopts the candidate if and only if it is strictly
\* longer than the current chain and valid; on adoption the chain becomes
\* the candidate and pending_txs is emptied, otherwise the chain stays.
C5_AdoptIffLongerAndValid ==
    /\ [][LedgerStepInPlace => \A t \in Threads : \A p \in ChainRequests(chain) :
            (p.is_list /\ submit_chain(t, p)) =>
                IF Len(p.chain) > Len(chain) /\ ClaimValid(p.chain)
                THEN chain' = p.chain /\ pending_txs' = <<>>
                ELSE chain' = chain /\ pending_txs' = pending_txs]_vars
    /\ [](\A p \in ChainRequests(chain) :
            p.is_list =>
                (chain_response(p) = "replaced"
                    <=> (Len(p.chain) > Len(chain) /\ ClaimValid(p.chain))))

\* C5 witness: a foreign chain has been adopted, while a flawed chain that is
\* longer than the current chain is on offer and refused.
C5_Witness ==
    /\ chain \in ForeignChains
    /\ \E c \in FlawedChains :
          Len(c) > Len(chain) /\ chain_response([is_list |-> TRUE, chain |-> c]) = "rejected"

\* C6: in every reachable state the first block of the chain has index 0 and
\* the all-zero previous hash.
C6_GenesisShape == chain[1].index = 0 /\ chain[1].prev_hash = ZeroHash

\* C7: in every reachable state every block after the first carries the
\* digest of its other fields, has DIFFICULTY leading zero symbols, and
\* names the hash of the block before it.
C7_BlocksSealed ==
    \A i \in 2 .. Len(chain) :
        /\ chain[i].hash = compute_block_hash(chain[i])
        /\ \A j \in 1 .. DIFFICULTY : chain[i].hash[j] = 0
        /\ chain[i].prev_hash = chain[i - 1].hash

\* C7 witness: a block mined here (by A) on top of an adopted block (by C).
C7_Witness ==
    /\ Len(chain) = 3
    /\ chain[2].miner = "C"
    /\ chain[3].miner = "A"

\* C8: a candidate that is not longer than the current chain, the current
\* chain itself included, is answered "rejected", and the request leaves the
\* chain, pending_txs and every subscriber's queue as they were.
C8_NotLongerIsNoOp ==
    /\ [][LedgerStepInPlace => \A t \in Threads : \A p \in ChainRequests(chain) :
            (p.is_list /\ Len(p.chain) <= Len(chain) /\ submit_chain(t, p))
                => UNCHANGED <<chain, pending_txs, sse_clients>>]_vars
    /\ [](/\ chain_response([is_list |-> TRUE, chain |-> chain]) = "rejected"
          /\ \A p \in ChainRequests(chain) :
                (p.is_list /\ Len(p.chain) <= Len(chain)) => chain_response(p) = "rejected")

\* C8 witness: a foreign chain was adopted and announced once to the
\* subscriber, and another valid chain of the same length is on offer.
C8_Witness ==
    /\ chain \in ForeignChains
    /\ Len(sse_clients) = 1
    /\ sse_clients[1] = <<[event |-> "chain_replaced", data |-> [chain_length |-> Len(chain)]]>>
    /\ \E c \in ForeignChains : c # chain /\ Len(c) = Len(chain)

C10_BalanceFormula ==
    \A id \in Accounts \cup {SYSTEM} : balance(id) = ClaimBalance(chain, pending_txs, id)

\* C10 witness: 30 of A's 50 are pending towards B, whose balance is still 0.
C10_Witness ==
    /\ Len(pending_txs) = 1
    /\ pending_txs[1].amount = 30
    /\ balance("A") = 20
    /\ balance("B") = 0

\* C11: the nonce search runs outside the critical section: while a mine
\* request is searching, the ledger lock is free, so that a read or a
\* submit_tx can take it.
C11_SearchOutsideLock ==
    \A t \in Threads : pc[t] = "mine_pow" =>
        /\ LockFree
        /\ \A u \in Threads \ {t} : pc[u] = "idle" => ENABLED read_ledger(u)

\* C12: the step of events() that registers a subscriber leaves, as the
\* first item of the new queue, a snapshot of the chain and the pending
\* transactions of that moment.
C12_FirstMessageSnapshot ==
    [][\A t \in Threads : events(t) =>
            LET q == sse_clients'[Len(sse_clients')]
            IN  /\ Len(q) >= 1
                /\ q[1].event = "snapshot"
                /\ q[1].data = [chain |-> chain, pending_txs |-> pending_txs]]_vars

\* The subscriber at position i of the registry has gone away.
Dead(i) == i <= Len(streams) /\ streams[i] = "closed"

\* The same ledger when every request and every stream that can take a step
\* eventually takes one.
FairSpecEvents == SpecEvents /\ WF_vars(NextEvents)

RegistryNeverShrinks ==
    [][/\ Len(sse_clients') >= Len(sse_clients)
       /\ \A i \in 1 .. Len(sse_clients) :
            Dead(i) => Len(sse_clients'[i]) >= Len(sse_clients[i])]_vars

\* C19: the new_tx event of an accepted submit_tx carries the transaction
\* that this call appended: when the handler reads pending_txs[-1] after
\* the lock, the list is not empty and its last entry is that transaction.
C19_EventCarriesOwnTx ==
    [][\A t \in Threads : submit_tx_event(t) =>
            /\ Len(pending_txs) > 0
            /\ pending_txs[Len(pending_txs)] = local[t].tx]_vars

\* The threshold COIN_CAP * (1 - 1 / 2^j) has been reached by x whole coins.
ThresholdReached(x, j) == COIN_CAP - x <= COIN_CAP \div Pow(2, j)

ThresholdsReached(x) == Cardinality({j \in 1 .. MaxHalvings : ThresholdReached(x, j)})

\* min(START_REWARD / 2^n, COIN_CAP - x) as a quotient.
ClaimReward(x) ==
    LET n == ThresholdsReached(x)
    IN  IF START_REWARD <= (COIN_CAP - x) * Pow(2, n)
        THEN [num |-> START_REWARD, den |-> Pow(2, n)]
        ELSE [num |-> COIN_CAP - x, den |-> 1]

C16_MineBlockContents ==
    [][\A t \in Threads : mine_commit(t) =>
            LET tip == chain[Len(chain)]
                blk == chain'[Len(chain')]
                miner == local[t].new_block.miner
            IN  /\ Len(chain') = Len(chain) + 1
                /\ SubSeq(chain', 1, Len(chain)) = chain
                /\ blk.index = tip.index + 1
                /\ blk.index = Len(chain') - 1
                /\ blk.prev_hash = tip.hash
                /\ blk.transactions =
                      <<[from |-> SYSTEM, to |-> miner, amount |-> current_reward(chain)]>>
                      \o pending_txs
                /\ pending_txs' = <<>>]_vars

\* C16 without the numbering: everything the claim says of the appended
\* block except its index.
MineBlockContentsUnnumbered ==
    [][\A t \in Threads : mine_commit(t) =>
            LET tip == chain[Len(chain)]
                blk == chain'[Len(chain')]
                miner == local[t].new_block.miner
            IN  /\ Len(chain') = Len(chain) + 1
                /\ SubSeq(chain', 1, Len(chain)) = chain
                /\ blk.index = Len(chain') - 1
                /\ blk.prev_hash = tip.hash
                /\ blk.transactions =
                      <<[from |-> SYSTEM, to |-> miner, amount |-> current_reward(chain)]>>
                      \o pending_txs
                /\ pending_txs' = <<>>]_vars

\* C20: in every reachable state the balance of every identity other than
\* SYSTEM is at least 0.
C20_BalancesNonNegative == \A id \in Accounts : balance(id) >= 0

\* q holds one more event than p, placed behind the events of p.
OneMoreEvent(p, q) == Len(q) = Len(p) + 1 /\ SubSeq(q, 1, Len(p)) = p

\* Every mine commit and every chain adoption puts exactly one event,
\* "mined" or "chain_replaced", at the end of the queue of every registered
\* subscriber; a subscriber takes the oldest event of its queue; so the
\* "mined" events waiting in a queue, with no adoption between them, name
\* blocks in increasing order.
OneEventPerQueue ==
    /\ [][chain' # chain =>
            /\ Len(sse_clients') = Len(sse_clients)
            /\ \A i \in 1 .. Len(sse_clients) :
                  /\ OneMoreEvent(sse_clients[i], sse_clients'[i])
                  /\ sse_clients'[i][Len(sse_clients'[i])].event =
                        (IF pc' = pc THEN "chain_replaced" ELSE "mined")]_vars
    /\ [][\A i \in 1 .. Len(sse_clients) :
            Len(sse_clients'[i]) < Len(sse_clients[i]) =>
                sse_clients'[i] = SubSeq(sse_clients[i], 2, Len(sse_clients[i]))]_vars
    /\ [](\A i \in 1 .. Len(sse_clients) :
            \A a \in 1 .. Len(sse_clients[i]) : \A b \in a + 1 .. Len(sse_clients[i]) :
                ( /\ sse_clients[i][a].event = "mined"
                  /\ \A c \in a + 1 .. b : sse_clients[i][c].event = "mined" )
                => sse_clients[i][a].data.block_index < sse_clients[i][b].data.block_index)

\* Two different events that wait in both queues wait in the same order.
SameOrder(p, q) ==
    \A a \in 1 .. Len(p) : \A b \in a + 1 .. Len(p) :
        \A c \in 1 .. Len(q) : \A d \in c + 1 .. Len(q) :
            ~(p[a] = q[d] /\ p[b] = q[c] /\ p[a] # p[b])

\* C13: every mine commit and every chain adoption puts exactly one event
\* into the queue of every registered subscriber, and every subscriber
\* receives the events in the order of their publication: a queue is first
\* in, first out, and no two subscribers hold two events in opposite orders.
C13_OneEventInOrder ==
    /\ OneEventPerQueue
    /\ [](\A i \in 1 .. Len(sse_clients) : \A j \in 1 .. Len(sse_clients) :
            SameOrder(sse_clients[i], sse_clients[j]))

\* A request submit must refuse: a field is missing, the signature is not
\* the key's signature of the transfer, the sender is not the key, or the
\* amount exceeds the sender's balance.
ClaimTxRejected(tx) ==
    \/ \E f \in {"from", "to", "amount", "signature", "pubkey_spki"} : f \notin DOMAIN tx
    \/ tx.pubkey_spki \notin {"A", "B", "C"}
    \/ tx.signature # [signer |-> tx.pubkey_spki, from |-> tx.from, to |-> tx.to,
                       amount |-> tx.amount]
    \/ tx.from # tx.pubkey_spki
    \/ tx.amount > ClaimBalance(chain, pending_txs, tx.from)

\* A candidate the fork-choice rule must refuse.
ClaimChainRejected(p) == ~p.is_list \/ ~(Len(p.chain) > Len(chain) /\ ClaimValid(p.chain))

\* C15: a submit_tx that must be refused is answered with an error and goes
\* no further than its checks; a submit_chain that must be refused changes
\* nothing; a transaction enters pending_txs only if it need not be refused;
\* and an event reaches a queue only from a mine commit, an adoption or the
\* announcement of an accepted transaction.
C15_RejectedChangesNothing ==
    /\ [](\A tx \in TxRequests : ClaimTxRejected(tx) => tx_response(tx) # "accepted")
    /\ [][\A t \in Threads : (pc[t] = "idle" /\ pc'[t] = "tx_append") =>
            \A tx \in TxRequests : submit_tx(t, tx) => ~ClaimTxRejected(tx)]_vars
    /\ [][LedgerStepInPlace => \A t \in Threads : \A p \in ChainRequests(chain) :
            (ClaimChainRejected(p) /\ submit_chain(t, p)) => UNCHANGED vars]_vars
    /\ [][Len(pending_txs') > Len(pending_txs) =>
            /\ pending_txs' = Append(pending_txs, pending_txs'[Len(pending_txs')])
            /\ ~ClaimTxRejected(pending_txs'[Len(pending_txs')])]_vars
    /\ [][\A i \in 1 .. Len(sse_clients) :
            Len(sse_clients'[i]) > Len(sse_clients[i]) =>
                \/ chain' # chain
                \/ \E t \in Threads :
                      /\ pc[t] = "tx_put"
                      /\ sse_clients'[i] = Append(sse_clients[i], local[t].payload)
                      /\ local[t].payload.event = "new_tx"]_vars

\* C15 witness: with a subscriber listening and 30 of A's 50 coins pending,
\* a second transfer of 30, a transfer signed with another key and a longer
\* chain without proof of work are all on offer and refused, and only the
\* pending transfer has been announced.
C15_Witness ==
    /\ Len(sse_clients) = 1
    /\ Len(sse_clients[1]) = 1 /\ sse_clients[1][1].event = "new_tx"
    /\ Len(pending_txs) = 1 /\ pending_txs[1].amount = 30
    /\ \A t \in Threads : pc[t] = "idle"
    /\ tx_response(Transfer("A", "B", 30)) = "insufficient funds"
    /\ \E tx \in MalformedRequests : tx_response(tx) = "invalid signature"
    /\ \E c \in FlawedChains :
          Len(c) > Len(chain) /\ chain_response([is_list |-> TRUE, chain |-> c]) = "rejected"

\* C18: every step that appends one block to the chain appends a block whose
\* prev_hash is the hash of the tip it is appended to; and while a mine
\* request is searching, the block it builds names the current tip.
C18_AppendOnCurrentTip ==
    /\ [][(Len(chain') = Len(chain) + 1 /\ SubSeq(chain', 1, Len(chain)) = chain) =>
            chain'[Len(chain')].prev_hash = chain[Len(chain)].hash]_vars
    /\ [](\A t \in Threads :
            pc[t] = "mine_pow" => local[t].new_block.prev_hash = chain[Len(chain)].hash)

\* C18 witness: a block mined here by A sits on the tip of an adopted chain
\* that starts from a foreign first block.
C18_Witness ==
    /\ Len(chain) = 3
    /\ WithoutLast(chain) \in {Honest(g) : g \in ForeignGenesis}
    /\ chain[3].miner = "A"
    /\ chain[3].prev_hash = chain[2].hash

====
